---- MODULE Spec2Model ----
(***************************************************************************)
(* Model of subjective_logic.BinomialOpinion (binomial_opinion.py).        *)
(*                                                                         *)
(* The class stores four decimal.Decimal fields quantized to 6 decimal     *)
(* places and computes with Python's decimal module (default context: 28   *)
(* significant digits, ROUND_HALF_EVEN) and with binary64 floats.  Both    *)
(* number systems are modelled exactly: a Decimal is a sign, an            *)
(* arbitrary-precision coefficient and a power of ten; a float is the      *)
(* Decimal holding the exact value of the binary64 number.                 *)
(***************************************************************************)
EXTENDS Integers, Sequences, FiniteSets, TLC

(***************************************************************************)
(* Arbitrary-precision naturals: the coefficient of a Decimal.  A number   *)
(* is the sequence of its limbs in radix Base, least significant first,    *)
(* without leading zero limbs; zero is the empty sequence.                 *)
(***************************************************************************)
Base == 10 ^ 4

Limb(a, i) == IF i <= Len(a) THEN a[i] ELSE 0

Max(x, y) == IF x >= y THEN x ELSE y

Min(x, y) == IF x <= y THEN x ELSE y

\* a without its leading zero limbs.
BNorm(a) ==
    LET nz == {i \in 1..Len(a) : a[i] # 0}
    IN  IF nz = {} THEN <<>>
        ELSE SubSeq(a, 1, CHOOSE i \in nz : \A j \in nz : j <= i)

\* A machine number 0 <= n < 2^31 as limbs, and back.
BFromInt(n) == BNorm(<<n % Base, (n \div Base) % Base, n \div (Base * Base)>>)

BToInt(a) == Limb(a, 1) + Base * Limb(a, 2) + Base * Base * Limb(a, 3)

\* The carry into limb i of a sum whose raw column sums are t (each at most
\* 2*Base - 2): a column j < i overflows and every column between them is full.
CarryInto(t, i) ==
    \E j \in 1..(i - 1) : t[j] >= Base /\ \A k \in (j + 1)..(i - 1) : t[k] = Base - 1

BAdd(a, b) ==
    LET n == Max(Len(a), Len(b))
        t == [i \in 1..(n + 1) |-> Limb(a, i) + Limb(b, i)]
    IN  BNorm([i \in 1..(n + 1) |-> (t[i] + (IF CarryInto(t, i) THEN 1 ELSE 0)) % Base])

\* The borrow into limb i of a - b: a lower limb of a is smaller than b's and
\* every limb between them is equal.
BorrowInto(a, b, i) ==
    \E j \in 1..(i - 1) : a[j] < Limb(b, j) /\ \A k \in (j + 1)..(i - 1) : a[k] = Limb(b, k)

\* a - b, for a >= b.
BSub(a, b) ==
    BNorm([i \in 1..Len(a) |->
              (a[i] - Limb(b, i) - (IF BorrowInto(a, b, i) THEN 1 ELSE 0) + Base) % Base])

\* -1, 0 or 1 as a < b, a = b or a > b.
BCmp(a, b) ==
    IF Len(a) < Len(b) THEN -1
    ELSE IF Len(a) > Len(b) THEN 1
    ELSE LET df == {i \in 1..Len(a) : a[i] # b[i]}
         IN  IF df = {} THEN 0
             ELSE LET top == CHOOSE i \in df : \A j \in df : j <= i
                  IN  IF a[top] < b[top] THEN -1 ELSE 1

\* a * m for a machine number 0 <= m < Base: the low and the high half of
\* each limb's product, added one limb apart.
BMulSmall(a, m) ==
    BAdd([i \in 1..Len(a) |-> (a[i] * m) % Base],
         [i \in 1..(Len(a) + 1) |-> IF i = 1 THEN 0 ELSE (a[i - 1] * m) \div Base])

\* a * Base^k.
BShift(a, k) == IF a = <<>> THEN a ELSE [i \in 1..k |-> 0] \o a

\* acc + a * (limbs i..Len(b) of b) * Base^(i-1).
BMulAcc[acc \in Seq(Nat), a \in Seq(Nat), b \in Seq(Nat), i \in Nat] ==
    IF i > Len(b) THEN acc
    ELSE BMulAcc[BAdd(acc, BShift(BMulSmall(a, b[i]), i - 1)), a, b, i + 1]

BMul(a, b) == IF Len(a) >= Len(b) THEN BMulAcc[<<>>, a, b, 1] ELSE BMulAcc[<<>>, b, a, 1]

\* The largest q in lo..hi with b*q <= r (b*lo <= r is known).
BQuotDigit[r \in Seq(Nat), b \in Seq(Nat), lo \in Nat, hi \in Nat] ==
    IF lo >= hi THEN lo
    ELSE LET mid == (lo + hi + 1) \div 2
         IN  IF BCmp(BMulSmall(b, mid), r) <= 0
             THEN BQuotDigit[r, b, mid, hi]
             ELSE BQuotDigit[r, b, lo, mid - 1]

\* One step of long division: r < b * Base; the quotient digit and remainder.
BDivDigit(r, b, q) == <<q, BSub(r, BMulSmall(b, q))>>

BDivTop(r, b) ==
    IF Len(r) < Len(b) THEN 0
    ELSE IF Len(r) = Len(b) THEN r[Len(r)]
    ELSE r[Len(r)] * Base + r[Len(r) - 1]

BDivEstimate(r, b, rt, bt) ==
    BDivDigit(r, b, BQuotDigit[r, b, rt \div (bt + 1), Min(Base - 1, rt \div bt)])

BDivStep(r, b) == BDivEstimate(r, b, BDivTop(r, b), b[Len(b)])

\* Long division, limbs i..1 of a still to bring down: q is the quotient
\* and r the remainder of the limbs above i.
BDivModAcc[q \in Seq(Nat), r \in Seq(Nat), a \in Seq(Nat), b \in Seq(Nat), i \in Nat] ==
    IF i = 0 THEN <<q, r>>
    ELSE LET Bring(st) == BDivModAcc[BNorm(<<st[1]>> \o q), st[2], a, b, i - 1]
         IN  Bring(BDivStep(BNorm(<<a[i]>> \o r), b))

\* <<a div b, a mod b>> for b > 0.
BDivMod(a, b) ==
    LET i0 == Max(Len(a) - Len(b) + 1, 0)
    IN  BDivModAcc[<<>>, BNorm(SubSeq(a, i0 + 1, Len(a))), a, b, i0]

\* acc * sq^k, by squaring.
BPowAcc[acc \in Seq(Nat), sq \in Seq(Nat), k \in Nat] ==
    IF k = 0 THEN acc
    ELSE BPowAcc[IF k % 2 = 1 THEN BMul(acc, sq) ELSE acc,
                 IF k > 1 THEN BMul(sq, sq) ELSE sq, k \div 2]

\* m^k for a machine number 0 < m < Base.
BPow(m, k) == BPowAcc[<<1>>, <<m>>, k]

\* 10^k.
BPow10(k) == BShift(<<10 ^ (k % 4)>>, k \div 4)

\* The number of decimal digits of a (0 for zero).
BDigits(a) ==
    IF a = <<>> THEN 0
    ELSE LET t == a[Len(a)]
         IN  4 * (Len(a) - 1)
             + (IF t >= 1000 THEN 4 ELSE IF t >= 100 THEN 3 ELSE IF t >= 10 THEN 2 ELSE 1)

BIsOdd(a) == a # <<>> /\ a[1] % 2 = 1

\* The p-th decimal digit of a, counted from the right starting at 1.
BDigit(a, p) == (Limb(a, (p - 1) \div 4 + 1) \div (10 ^ ((p - 1) % 4))) % 10

\* a div 10^k.
BDivPow10(a, k) ==
    LET w == k \div 4
        j == k % 4
    IN  BNorm([i \in 1..(Len(a) - w) |->
                  Limb(a, w + i) \div (10 ^ j)
                  + (Limb(a, w + i + 1) % (10 ^ j)) * (10 ^ (4 - j))])

\* How a mod 10^k compares with half of 10^k, for k >= 1:
\* "zero", "below" (half), "half" or "above".
BRemPow10(a, k) ==
    LET d    == BDigit(a, k)
        rest == \E p \in 1..(k - 1) : BDigit(a, p) # 0
    IN  IF d > 5 \/ (d = 5 /\ rest) THEN "above"
        ELSE IF d = 5 THEN "half"
        ELSE IF d > 0 \/ rest THEN "below"
        ELSE "zero"

\* a * 10^k.
BMulPow10(a, k) == BShift(BMulSmall(a, 10 ^ (k % 4)), k \div 4)

(***************************************************************************)
(* decimal.Decimal under the default context.  A Decimal is               *)
(* (-1)^neg * c * 10^e; Prec significant digits, ROUND_HALF_EVEN.         *)
(***************************************************************************)
Prec == 28

Dec(neg, c, e) == [neg |-> neg, c |-> c, e |-> e]

\* Decimal(n) of a Python int |n| < 2^31, and the literal Decimal("n E e").
D(n, e) == Dec(n < 0, BFromInt(IF n < 0 THEN -n ELSE n), e)

DIsZero(x) == x.c = <<>>

DNeg(x) == Dec(~x.neg, x.c, x.e)

DAbs(x) == Dec(FALSE, x.c, x.e)

\* The context's rounding of an exact result to Prec digits; sticky says that
\* a nonzero part below the coefficient c has already been dropped.
DRoundUp(q, cls, sticky) ==
    IF cls = "above" \/ (cls = "half" /\ (sticky \/ BIsOdd(q))) THEN BAdd(q, <<1>>) ELSE q

DRoundBy(neg, c, e, sticky, k) ==
    IF k <= 0 THEN Dec(neg, c, e)
    ELSE Dec(neg, DRoundUp(BDivPow10(c, k), BRemPow10(c, k), sticky), e + k)

DRound(neg, c, e, sticky) == DRoundBy(neg, c, e, sticky, BDigits(c) - Prec)

\* x * y
DMul(x, y) == DRound(x.neg # y.neg, BMul(x.c, y.c), x.e + y.e, FALSE)

\* x + y, the coefficients cx and cy taken at the common exponent e.
DAddAligned(xneg, cx, yneg, cy, e) ==
    IF xneg = yneg THEN DRound(xneg, BAdd(cx, cy), e, FALSE)
    ELSE IF BCmp(cx, cy) >= 0 THEN DRound(xneg, BSub(cx, cy), e, FALSE)
    ELSE DRound(yneg, BSub(cy, cx), e, FALSE)

DAdd(x, y) ==
    DAddAligned(x.neg, BMulPow10(x.c, x.e - Min(x.e, y.e)),
                y.neg, BMulPow10(y.c, y.e - Min(x.e, y.e)), Min(x.e, y.e))

\* x - y
DSub(x, y) == DAdd(x, DNeg(y))

\* x / y for y # 0: the quotient to at least Prec + 1 digits, then rounded.
DDivScaled(neg, qr, e) == DRound(neg, qr[1], e, qr[2] # <<>>)

DDivBy(x, y, s) == DDivScaled(x.neg # y.neg, BDivMod(BMulPow10(x.c, s), y.c), x.e - y.e - s)

DDiv(x, y) ==
    IF DIsZero(x) THEN Dec(x.neg # y.neg, <<>>, 0)
    ELSE DDivBy(x, y, Max(0, Prec + 1 + BDigits(y.c) - BDigits(x.c)))

\* -1, 0 or 1 as x < y, x = y or x > y.
DCmpAligned(x, y, m) ==
    IF DIsZero(x) /\ DIsZero(y) THEN 0
    ELSE IF DIsZero(x) THEN (IF y.neg THEN 1 ELSE -1)
    ELSE IF DIsZero(y) THEN (IF x.neg THEN -1 ELSE 1)
    ELSE IF x.neg /\ ~y.neg THEN -1
    ELSE IF ~x.neg /\ y.neg THEN 1
    ELSE IF x.neg THEN -m ELSE m

DCmp(x, y) ==
    DCmpAligned(x, y, BCmp(BMulPow10(x.c, x.e - Min(x.e, y.e)),
                           BMulPow10(y.c, y.e - Min(x.e, y.e))))

DEq(x, y) == DCmp(x, y) = 0

DLe(x, y) == DCmp(x, y) <= 0

DLt(x, y) == DCmp(x, y) < 0

(***************************************************************************)
(* Python float (IEEE binary64).  A float is represented by the Decimal    *)
(* holding its exact value, so Decimal(f) of a float f is f itself, as in  *)
(* Python, where that conversion is exact.  float(x) of a Decimal x is the *)
(* nearest binary64 number, ties to even: m * 2^-y with 2^52 <= m <= 2^53. *)
(* Covers 0 and 2^-200 < |x| < 2^53; nothing outside is ever converted.    *)
(***************************************************************************)
\* n doubled until it reaches lim, with the count of doublings added to y.
Scale2[n \in Seq(Nat), lim \in Seq(Nat), y \in Nat] ==
    IF BCmp(n, lim) >= 0 THEN [n |-> n, y |-> y]
    ELSE Scale2[BMulSmall(n, 2), lim, y + 1]

\* The first guess of the binary exponent for a number with L decimal digits
\* before the point: 2^(52-y0) is not above |x|.
FloatGuess(L) ==
    Max(0, IF L >= 0 THEN 52 - ((L * 3322) \div 1000 + 1)
                     ELSE 52 + ((-L) * 3321) \div 1000)

\* m0 = floor(n * 2^y / 10^a) rounded to nearest, ties to even, over 2^y.
FloatRound(neg, m0, cls, y) ==
    Dec(neg, BMul(BPow(5, y), IF cls = "above" \/ (cls = "half" /\ BIsOdd(m0))
                               THEN BAdd(m0, <<1>>) ELSE m0), -y)

FloatScaled(neg, sc, a) ==
    FloatRound(neg, BDivPow10(sc.n, a), IF a = 0 THEN "zero" ELSE BRemPow10(sc.n, a), sc.y)

\* |x| = n / 10^a, and 2^(52-y0) <= |x|.
FloatFrom(neg, n, a, y0) ==
    FloatScaled(neg, Scale2[BMul(n, BPow(2, y0)), BMulPow10(BPow(2, 52), a), y0], a)

FloatOf(neg, n, a) == FloatFrom(neg, n, a, FloatGuess(BDigits(n) - a))

float(x) ==
    IF DIsZero(x) THEN x
    ELSE FloatOf(x.neg, BMulPow10(x.c, Max(x.e, 0)), Max(-x.e, 0))

(***************************************************************************)
(* Calls return Return(value) or raise: Raise(exception type, message).    *)
(***************************************************************************)
Return(v) == [ok |-> TRUE, val |-> v]

Raise(exc, msg) == [ok |-> FALSE, exc |-> exc, msg |-> msg]

None == "None"

\* Decimal places kept by set_param: Decimal("1.000000"), n_decimal_places=6.
Places == 6

\* value.quantize(Decimal("1.000000"), rounding=ROUND_HALF_UP): the
\* coefficient at exponent -Places, a dropped half or more rounding away from
\* zero; InvalidOperation when the result needs more than Prec digits.
Quantized(neg, q) ==
    IF BDigits(q) > Prec
    THEN Raise("decimal.InvalidOperation", "quantize result has too many digits")
    ELSE Return(Dec(neg, q, -Places))

\* The coefficient of value with its last k digits dropped, rounded half up.
HalfUp(c, k) ==
    IF k <= 0 THEN BMulPow10(c, -k)
    ELSE IF BRemPow10(c, k) \in {"half", "above"} THEN BAdd(BDivPow10(c, k), <<1>>)
    ELSE BDivPow10(c, k)

\* quantize with rounding=ROUND_DOWN: the dropped digits are discarded.
quantize_ROUND_DOWN(value) ==
    Quantized(value.neg, IF -Places - value.e <= 0
                         THEN BMulPow10(value.c, Places + value.e)
                         ELSE BDivPow10(value.c, -Places - value.e))

quantize(value) == Quantized(value.neg, HalfUp(value.c, -Places - value.e))

_set_to_zero_if_close(value, n_decimal_places) ==
    IF DLt(DAbs(value), D(1, -n_decimal_places)) THEN D(0, 0) ELSE value

_validate_value(value) ==
    IF ~(DLe(D(0, 0), value) /\ DLe(value, D(1, 0)))
    THEN Raise("ValueError", "Value must be between 0 and 1.")
    ELSE Return(value)

\* A stored field: the Decimal with exponent -Places is kept as its
\* coefficient, the number of millionths (F is the Decimal again).
Micro(d) == IF DIsZero(d) THEN 0 ELSE BToInt(BMulPow10(d.c, d.e + Places))

F(q) == D(q, -Places)

\* setattr(self, attribute, v) unless the validation v raised.
SetValidated(self, attribute, v) ==
    IF ~v.ok THEN v ELSE Return([self EXCEPT ![attribute] = Micro(v.val)])

\* The rest of set_param once value.quantize(...) gave q.
SetQuantized(self, attribute, q) ==
    IF ~q.ok THEN q
    ELSE SetValidated(self, attribute, _validate_value(_set_to_zero_if_close(q.val, Places)))

\* self with the attribute set, or the exception raised before setattr.
set_param(self, attribute, value) == SetQuantized(self, attribute, quantize(value))

SumInTolerance(total) ==
    IF ~(DLe(D(999999, -6), total) /\ DLe(total, D(1000001, -6)))
    THEN Raise("ValueError", "The sum of belief, disbelief, and uncertainty must equal 1.")
    ELSE Return(None)

validate_opinion(self) ==
    SumInTolerance(DAdd(DAdd(F(self.belief), F(self.disbelief)), F(self.uncertainty)))

\* The fields as __init__ first assigns them.
Unset == [belief |-> None, disbelief |-> None, uncertainty |-> None, base_rate |-> None]

\* The next set_param of __init__, unless an earlier statement raised (s).
InitSet(s, attribute, value) == IF ~s.ok THEN s ELSE set_param(s.val, attribute, value)

InitValidated(self, v) == IF ~v.ok THEN v ELSE Return(self)

InitValidate(s) == IF ~s.ok THEN s ELSE InitValidated(s.val, validate_opinion(s.val))

\* __init__: the new object, or the first exception raised.
BinomialOpinion(belief, disbelief, uncertainty, base_rate) ==
    InitValidate(InitSet(InitSet(InitSet(set_param(Unset, "belief", belief),
                                         "disbelief", disbelief),
                                 "uncertainty", uncertainty),
                         "base_rate", base_rate))

\* The default of the base_rate parameter, the float 0.5.
DefaultBaseRate == D(5, -1)

\* The property getters: float(self._belief), ...
getter(self, attribute) == float(F(self[attribute]))

to_json(self) ==
    [belief |-> getter(self, "belief"), disbelief |-> getter(self, "disbelief"),
     uncertainty |-> getter(self, "uncertainty"), base_rate |-> getter(self, "base_rate")]

\* cls(d["belief"], d["disbelief"], d["uncertainty"], d.get("base_rate", 0.5))
FromDict(d) ==
    BinomialOpinion(d["belief"], d["disbelief"], d["uncertainty"],
                    IF "base_rate" \in DOMAIN d THEN d["base_rate"] ELSE DefaultBaseRate)

\* opinion_json is [isdict |-> whether it is a dict, d |-> the mapping].
from_json(opinion_json) ==
    IF ~opinion_json.isdict
    THEN Raise("ValueError", "JSON object must be a dictionary.")
    ELSE IF ~(\A key \in {"belief", "disbelief", "uncertainty", "base_rate"} :
                 key \in DOMAIN opinion_json.d)
    THEN Raise("ValueError", "JSON object must contain the keys 'belief', 'disbelief', 'uncertainty', and 'base_rate'.")
    ELSE FromDict(opinion_json.d)

\* The range check and the conversion of the Decimal probability.
Projected(p) ==
    IF ~(DLe(D(0, 0), p) /\ DLe(p, D(1, 0)))
    THEN Raise("ValueError", "Probability must be between 0 and 1.")
    ELSE Return(float(p))

probability(self) ==
    Projected(DAdd(F(self.belief), DMul(F(self.base_rate), F(self.uncertainty))))

\* x / y as Python evaluates it: decimal's signals are trapped.
Divide(x, y) ==
    IF DIsZero(y)
    THEN (IF DIsZero(x) THEN Raise("decimal.InvalidOperation", "DivisionUndefined")
                        ELSE Raise("decimal.DivisionByZero", "DivisionByZero"))
    ELSE Return(DDiv(x, y))

\* BinomialOpinion(float(belief), float(disbelief), float(uncertainty), base_rate)
\* unless one of the divisions before it raised.
EvidenceOpinion(b, d, u, base_rate) ==
    IF ~b.ok THEN b
    ELSE IF ~d.ok THEN d
    ELSE IF ~u.ok THEN u
    ELSE BinomialOpinion(float(b.val), float(d.val), float(u.val), base_rate)

\* Decimal(r), Decimal(s), Decimal(W) and their sum n.
EvidenceRatios(r, s, W, n, base_rate) ==
    EvidenceOpinion(Divide(r, n), Divide(s, n), Divide(W, n), base_rate)

\* r and s are Python ints, W and base_rate numbers.
from_evidence(r, s, base_rate, W) ==
    IF ~(r > 0)
    THEN Raise("ValueError", "Positive evidence 'r' must be a positive integer.")
    ELSE IF ~(s > 0)
    THEN Raise("ValueError", "Negative evidence 's' must be a positive integer.")
    ELSE EvidenceRatios(D(r, 0), D(s, 0), W, DAdd(DAdd(D(r, 0), D(s, 0)), W), base_rate)

\* BinomialOpinion(float(belief), float(disbelief), float(uncertainty),
\* float(base_rate)) unless one of the divisions before it raised.
Fused(b, d, u, a) ==
    IF ~b.ok THEN b
    ELSE IF ~d.ok THEN d
    ELSE IF ~u.ok THEN u
    ELSE IF ~a.ok THEN a
    ELSE BinomialOpinion(float(b.val), float(d.val), float(u.val), float(a.val))

\* Eq. 12.14 on the Decimal fields of self (A) and other (B).
\* The fusion with other's belief weighted by its own uncertainty.
CumulativeOver_uB(bA, dA, uA, aA, bB, dB, uB, aB, denominator) ==
    Fused(Divide(DAdd(DMul(bA, uB), DMul(bB, uB)), denominator),
          Divide(DAdd(DMul(dA, uB), DMul(dB, uA)), denominator),
          Divide(DMul(uA, uB), denominator),
          IF DEq(uA, D(1, 0)) /\ DEq(uB, D(1, 0))
          THEN Divide(DAdd(aA, aB), D(2, 0))
          ELSE Divide(DSub(DAdd(DMul(aA, uB), DMul(aB, uA)),
                           DMul(DMul(DAdd(aA, aB), uA), uB)),
                      DSub(DAdd(uA, uB), DMul(DMul(D(2, 0), uA), uB))))

CumulativeOver(bA, dA, uA, aA, bB, dB, uB, aB, denominator) ==
    Fused(Divide(DAdd(DMul(bA, uB), DMul(bB, uA)), denominator),
          Divide(DAdd(DMul(dA, uB), DMul(dB, uA)), denominator),
          Divide(DMul(uA, uB), denominator),
          IF DEq(uA, D(1, 0)) /\ DEq(uB, D(1, 0))
          THEN Divide(DAdd(aA, aB), D(2, 0))
          ELSE Divide(DSub(DAdd(DMul(aA, uB), DMul(aB, uA)),
                           DMul(DMul(DAdd(aA, aB), uA), uB)),
                      DSub(DAdd(uA, uB), DMul(DMul(D(2, 0), uA), uB))))

CumulativeFields(bA, dA, uA, aA, bB, dB, uB, aB) ==
    IF DIsZero(uA) /\ DIsZero(uB)
    THEN Raise("ValueError", "Cumulative fusion is undefined when both uncertainties are zero.")
    ELSE CumulativeOver(bA, dA, uA, aA, bB, dB, uB, aB, DSub(DAdd(uA, uB), DMul(uA, uB)))

cumulative_fusion(self, other) ==
    CumulativeFields(F(self.belief), F(self.disbelief), F(self.uncertainty), F(self.base_rate),
                     F(other.belief), F(other.disbelief), F(other.uncertainty), F(other.base_rate))

\* float(uncertainty) with uncertainty = Decimal(1) - belief - disbelief.
DiscountedOpinion(belief, disbelief, base_rate) ==
    BinomialOpinion(float(belief), float(disbelief),
                    float(DSub(DSub(D(1, 0), belief), disbelief)), float(base_rate))

\* Eq. 14.6 with p = self.probability(), unless that call raised.
Discounted(p, other) ==
    IF ~p.ok THEN p
    ELSE DiscountedOpinion(DMul(p.val, F(other.belief)), DMul(p.val, F(other.disbelief)),
                           F(other.base_rate))

trust_discounting(self, other) == Discounted(probability(self), other)

AverageFields(bA, dA, uA, aA, bB, dB, uB, aB) ==
    IF DIsZero(uA) /\ DIsZero(uB)
    THEN Raise("ValueError", "Cumulative fusion is undefined when both uncertainties are zero.")
    ELSE IF ~(~DIsZero(uA) \/ ~DIsZero(uB))
    THEN Raise("UnboundLocalError", "belief")
    ELSE Fused(Divide(DAdd(DMul(bA, uB), DMul(bB, uA)), DAdd(uA, uB)),
               Divide(DAdd(DMul(dA, uB), DMul(dB, uA)), DAdd(uA, uB)),
               Divide(DMul(DMul(D(2, 0), uA), uB), DAdd(uA, uB)),
               Divide(DAdd(aA, aB), D(2, 0)))

average_fusion(self, other) ==
    AverageFields(F(self.belief), F(self.disbelief), F(self.uncertainty), F(self.base_rate),
                  F(other.belief), F(other.disbelief), F(other.uncertainty), F(other.base_rate))

(***************************************************************************)
(* The state machine.  self is the object a client holds, constructed says *)
(* whether a constructor has returned it; call, args and result are the    *)
(* last call made, its arguments and what it returned or raised.           *)
(***************************************************************************)
VARIABLES self, constructed, call, args, result

vars == <<self, constructed, call, args, result>>

\* The value of a Python numeric literal written as the Decimal x: an int or
\* a float that is a whole number is exact, any other is the nearest float.
Num(x) == IF x.e >= 0 THEN x ELSE float(x)

\* The four arguments of a constructor call.
Arguments(t) == [i \in 1..4 |-> Num(D(t[i][1], t[i][2]))]

\* Arguments of BinomialOpinion(...): the literal <<n, e>> is n * 10^e.
ConstructLiterals ==
    { <<<<5, -1>>, <<3, -1>>, <<2, -1>>, <<5, -1>>>>,
      <<<<0, 0>>, <<0, 0>>, <<1, 0>>, <<5, -1>>>>,
      <<<<1, 0>>, <<0, 0>>, <<0, 0>>, <<1, 0>>>>,
      <<<<5, -1>>, <<5, -1>>, <<0, 0>>, <<5, -1>>>>,
      <<<<166667, -6>>, <<166667, -6>>, <<666667, -6>>, <<5, -1>>>>,
      <<<<1, 0>>, <<0, 0>>, <<1, -6>>, <<5, -1>>>>,
      <<<<5, -1>>, <<500001, -6>>, <<0, 0>>, <<5, -1>>>>,
      <<<<285714, -6>>, <<428571, -6>>, <<285714, -6>>, <<5, -1>>>>,
      <<<<428571, -6>>, <<285714, -6>>, <<285714, -6>>, <<5, -1>>>>,
      <<<<78125, -7>>, <<9921875, -7>>, <<0, 0>>, <<5, -1>>>>,
      <<<<3333335, -7>>, <<6666665, -7>>, <<0, 0>>, <<5, -1>>>>,
      <<<<-4, -7>>, <<1, 0>>, <<0, 0>>, <<1, 0>>>>,
      <<<<0, 0>>, <<0, 0>>, <<1, 0>>, <<2, -1>>>>,
      <<<<5, -1>>, <<3, -1>>, <<3, -1>>, <<5, -1>>>>,
      <<<<15, -1>>, <<0, 0>>, <<0, 0>>, <<5, -1>>>>,
      <<<<5, -1>>, <<-3, -1>>, <<8, -1>>, <<5, -1>>>>,
      <<<<5, -1>>, <<3, -1>>, <<2, -1>>, <<15, -1>>>>,
      <<<<1, 22>>, <<0, 0>>, <<0, 0>>, <<5, -1>>>> }

ConstructInputs == { Arguments(t) : t \in ConstructLiterals }

\* Values assigned through the property setters.
SetValues == { Num(D(t[1], t[2])) : t \in {<<9, -1>>, <<15, -1>>} }

\* The other operand of a binary operator: opinions a constructor returns.
OperandLiterals ==
    { <<<<5, -1>>, <<3, -1>>, <<2, -1>>, <<5, -1>>>>,
      <<<<0, 0>>, <<0, 0>>, <<1, 0>>, <<5, -1>>>>,
      <<<<1, 0>>, <<0, 0>>, <<0, 0>>, <<1, 0>>>>,
      <<<<166667, -6>>, <<166667, -6>>, <<666667, -6>>, <<5, -1>>>>,
      <<<<5, -1>>, <<500001, -6>>, <<0, 0>>, <<5, -1>>>>,
      <<<<285714, -6>>, <<428571, -6>>, <<285714, -6>>, <<5, -1>>>>,
      <<<<428571, -6>>, <<285714, -6>>, <<285714, -6>>, <<5, -1>>>> }

Constructed(t) == BinomialOpinion(t[1], t[2], t[3], t[4])

Operands == { Constructed(Arguments(t)).val : t \in OperandLiterals }

\* Evidence counts r and s tried by from_evidence: 0..MaxEvidence and 635.
MaxEvidence == 3

EvidenceCounts == (0 .. MaxEvidence) \cup {635}

\* Prior weights W tried by from_evidence (2 is the default).
PriorWeights == {1, 2, 4}

Keys == {"belief", "disbelief", "uncertainty", "base_rate"}

Init ==
    /\ self = Unset
    /\ constructed = FALSE
    /\ call = "none"
    /\ args = <<>>
    /\ result = Return(None)

\* A constructor or classmethod returned r: the client holds the new object.
Bind(r) ==
    /\ result' = r
    /\ constructed' = r.ok
    /\ self' = IF r.ok THEN r.val ELSE self

\* self = BinomialOpinion(belief, disbelief, uncertainty, base_rate)
Construct ==
    \E t \in ConstructInputs :
        /\ ~constructed
        /\ call' = "__init__"
        /\ args' = t
        /\ Bind(Constructed(t))

\* self.<attribute> = value
Set(attribute) ==
    \E value \in SetValues :
        /\ constructed
        /\ call' = attribute
        /\ args' = <<value>>
        /\ LET r == set_param(self, attribute, value)
           IN  /\ self' = IF r.ok THEN r.val ELSE self
               /\ result' = IF r.ok THEN Return(None) ELSE r
        /\ UNCHANGED constructed

SetBelief == Set("belief")

SetDisbelief == Set("disbelief")

SetUncertainty == Set("uncertainty")

SetBaseRate == Set("base_rate")

\* self = BinomialOpinion.from_evidence(r, s, 0.5, W)
FromEvidence ==
    \E r \in EvidenceCounts, s \in EvidenceCounts, W \in PriorWeights :
        /\ ~constructed
        /\ call' = "from_evidence"
        /\ args' = <<r, s, DefaultBaseRate, W>>
        /\ Bind(from_evidence(r, s, DefaultBaseRate, D(W, 0)))

\* self.probability()
Probability ==
    /\ constructed
    /\ call' = "probability"
    /\ args' = <<>>
    /\ result' = probability(self)
    /\ UNCHANGED <<self, constructed>>

\* self.cumulative_fusion(other)
CumulativeFusion ==
    \E other \in Operands :
        /\ constructed
        /\ call' = "cumulative_fusion"
        /\ args' = <<other>>
        /\ result' = cumulative_fusion(self, other)
        /\ UNCHANGED <<self, constructed>>

\* self.average_fusion(other)
AverageFusion ==
    \E other \in Operands :
        /\ constructed
        /\ call' = "average_fusion"
        /\ args' = <<other>>
        /\ result' = average_fusion(self, other)
        /\ UNCHANGED <<self, constructed>>

\* self.trust_discounting(other)
TrustDiscounting ==
    \E other \in Operands :
        /\ constructed
        /\ call' = "trust_discounting"
        /\ args' = <<other>>
        /\ result' = trust_discounting(self, other)
        /\ UNCHANGED <<self, constructed>>

\* self.to_json()
ToJson ==
    /\ constructed
    /\ call' = "to_json"
    /\ args' = <<>>
    /\ result' = Return(to_json(self))
    /\ UNCHANGED <<self, constructed>>

\* BinomialOpinion.from_json(opinion_json), where opinion_json is the mapping
\* to_json has just returned with some keys deleted, or is not a dict.
FromJson ==
    \E drop \in SUBSET Keys, isdict \in BOOLEAN :
        /\ call = "to_json"
        /\ isdict \/ drop = Keys
        /\ LET d == [key \in Keys \ drop |-> result.val[key]]
               opinion_json == [isdict |-> isdict, d |-> d]
           IN  /\ args' = <<opinion_json>>
               /\ result' = from_json(opinion_json)
        /\ call' = "from_json"
        /\ UNCHANGED <<self, constructed>>

\* The life of one object: construction, then the property setters.
Next == Construct \/ SetBelief \/ SetDisbelief \/ SetUncertainty \/ SetBaseRate

Spec == Init /\ [][Next]_vars

\* The fusion operators on a constructed opinion.
NextFusion == Construct \/ CumulativeFusion \/ AverageFusion

SpecFusion == Init /\ [][NextFusion]_vars

\* Opinions from the constructor or from evidence, projected and discounted.
NextDiscount == Construct \/ FromEvidence \/ Probability \/ TrustDiscounting

SpecDiscount == Init /\ [][NextDiscount]_vars

\* Serialization and deserialization.
NextJson == Construct \/ ToJson \/ FromJson

SpecJson == Init /\ [][NextJson]_vars

(***************************************************************************)
(* The claims.  Expected values are computed in exact integer arithmetic   *)
(* on the stored millionths, independently of Decimal and float.           *)
(***************************************************************************)
Million == 10 ^ Places

InUnit(q) == q >= 0 /\ q <= Million

\* The invariants of an Opinion: fields in [0,1], mass sum within 1e-6 of 1.
Valid(o) ==
    /\ InUnit(o.belief) /\ InUnit(o.disbelief) /\ InUnit(o.uncertainty) /\ InUnit(o.base_rate)
    /\ o.belief + o.disbelief + o.uncertainty >= Million - 1
    /\ o.belief + o.disbelief + o.uncertainty <= Million + 1

\* The error kind of the specification that an outcome is.
ErrorKind(r) ==
    IF r.ok THEN "none"
    ELSE IF r.exc # "ValueError" THEN r.exc
    ELSE IF r.msg \in {"Value must be between 0 and 1.", "Probability must be between 0 and 1."}
    THEN "OutOfRangeError"
    ELSE IF r.msg = "The sum of belief, disbelief, and uncertainty must equal 1."
    THEN "InvariantViolationError"
    ELSE IF r.msg = "Cumulative fusion is undefined when both uncertainties are zero."
    THEN "UndefinedOperationError"
    ELSE IF r.msg \in {"Positive evidence 'r' must be a positive integer.",
                       "Negative evidence 's' must be a positive integer."}
    THEN "InvalidArgumentError"
    ELSE "MalformedInputError"

\* floor(n / d + 1/2) for naturals n and d > 0 given as limbs.
RoundRatio(n, d) == BToInt(BDivMod(BAdd(BMulSmall(n, 2), d), BMulSmall(d, 2))[1])

\* x * y and x * 10^6 of machine numbers, as limbs.
Times(x, y) == BMul(BFromInt(x), BFromInt(y))

Scaled(n) == BMul(n, BFromInt(Million))

\* |x| in millionths, rounded half up.
RoundMagnitude(x) ==
    IF -x.e <= Places THEN BMulPow10(x.c, Places + x.e)
    ELSE BDivPow10(BAdd(x.c, BMulPow10(<<5>>, -x.e - Places - 1)), -x.e - Places)

RoundsIntoUnit(x) ==
    RoundMagnitude(x) = <<>> \/ (~x.neg /\ BCmp(RoundMagnitude(x), BFromInt(Million)) <= 0)

SetterCalls == {"belief", "disbelief", "uncertainty", "base_rate"}

\* C1: after a successful construction and after any sequence of setter
\* calls on the object, every field is in [0,1] and belief + disbelief +
\* uncertainty is within 1e-6 of 1.
C1_SettersKeepInvariant == constructed => Valid(self)

C1_Witness == call \in SetterCalls /\ result.ok /\ Valid(self)

\* C2: the constructor rounds each argument half up to 6 decimals; it fails
\* with OutOfRangeError if a rounded field is outside [0,1], otherwise with
\* InvariantViolationError if the rounded masses do not sum to 1 within 1e-6,
\* otherwise it returns an Opinion storing the four rounded values; a failure
\* produces no Opinion.
C2_Construct ==
    call = "__init__" =>
        IF \E i \in 1..4 : ~RoundsIntoUnit(args[i])
        THEN ErrorKind(result) = "OutOfRangeError" /\ ~constructed
        ELSE LET q == [i \in 1..4 |-> BToInt(RoundMagnitude(args[i]))]
             IN  IF q[1] + q[2] + q[3] < Million - 1 \/ q[1] + q[2] + q[3] > Million + 1
                 THEN ErrorKind(result) = "InvariantViolationError" /\ ~constructed
                 ELSE /\ result = Return([belief |-> q[1], disbelief |-> q[2],
                                          uncertainty |-> q[3], base_rate |-> q[4]])
                      /\ constructed /\ self = result.val

C2_Witness ==
    /\ call = "__init__" /\ result.ok
    /\ self = [belief |-> 7813, disbelief |-> 992188, uncertainty |-> 0, base_rate |-> 500000]

\* The fields cumulative fusion should give, from the exact quotients.
CumulativeExpected(A, B) ==
    LET den == BSub(Scaled(BFromInt(A.uncertainty + B.uncertainty)),
                    Times(A.uncertainty, B.uncertainty))
    IN  [belief |-> RoundRatio(Scaled(BAdd(Times(A.belief, B.uncertainty),
                                           Times(B.belief, A.uncertainty))), den),
         disbelief |-> RoundRatio(Scaled(BAdd(Times(A.disbelief, B.uncertainty),
                                              Times(B.disbelief, A.uncertainty))), den),
         uncertainty |-> RoundRatio(Scaled(Times(A.uncertainty, B.uncertainty)), den),
         base_rate |->
            IF A.uncertainty = Million /\ B.uncertainty = Million
            THEN (A.base_rate + B.base_rate + 1) \div 2
            ELSE RoundRatio(BSub(Scaled(BAdd(Times(A.base_rate, B.uncertainty),
                                             Times(B.base_rate, A.uncertainty))),
                                 BMul(Times(A.base_rate + B.base_rate, A.uncertainty),
                                      BFromInt(B.uncertainty))),
                            BSub(Scaled(BFromInt(A.uncertainty + B.uncertainty)),
                                 BMulSmall(Times(A.uncertainty, B.uncertainty), 2)))]

\* C3: cumulative fusion of valid opinions fails with UndefinedOperationError
\* when both uncertainties are 0; for every other pair it returns a valid
\* Opinion holding the 6-decimal roundings of the fusion formulas.
C3_CumulativeFusion ==
    call = "cumulative_fusion" /\ Valid(self) /\ Valid(args[1]) =>
        IF self.uncertainty = 0 /\ args[1].uncertainty = 0
        THEN ErrorKind(result) = "UndefinedOperationError"
        ELSE result.ok /\ Valid(result.val) /\ result.val = CumulativeExpected(self, args[1])

C3_Witness ==
    /\ call = "cumulative_fusion" /\ result.ok
    /\ self.uncertainty > 0 /\ args[1].uncertainty > 0
    /\ result.val = CumulativeExpected(self, args[1])

\* C4: average fusion of valid opinions fails with UndefinedOperationError
\* when both uncertainties are 0; for every other pair it returns a valid
\* Opinion whose base rate is the mean of the two base rates, and when
\* exactly one uncertainty is 0 the masses are those of that operand.
C4_AverageFusion ==
    call = "average_fusion" /\ Valid(self) /\ Valid(args[1]) =>
        IF self.uncertainty = 0 /\ args[1].uncertainty = 0
        THEN ErrorKind(result) = "UndefinedOperationError"
        ELSE /\ result.ok /\ Valid(result.val)
             /\ result.val.base_rate = (self.base_rate + args[1].base_rate + 1) \div 2
             /\ self.uncertainty = 0 =>
                    [result.val EXCEPT !.base_rate = 0] = [self EXCEPT !.base_rate = 0]
             /\ args[1].uncertainty = 0 =>
                    [result.val EXCEPT !.base_rate = 0] = [args[1] EXCEPT !.base_rate = 0]

C4_Witness ==
    /\ call = "average_fusion" /\ result.ok
    /\ self.uncertainty = 0 /\ args[1].uncertainty > 0
    /\ result.val.belief = self.belief

\* The projected probability in units of 10^-12: belief + base_rate * uncertainty.
ProjectedExact(o) == BAdd(Scaled(BFromInt(o.belief)), Times(o.base_rate, o.uncertainty))

\* |a - b| of limbs.
Distance(a, b) == IF BCmp(a, b) >= 0 THEN BSub(a, b) ELSE BSub(b, a)

\* Limbs a and b, in units of 10^-18, differ by at most one millionth.
Within(a, b) == BCmp(Distance(a, b), Scaled(BFromInt(Million))) <= 0

\* A stored field q as limbs in units of 10^-18.
Stored(q) == Scaled(Scaled(BFromInt(q)))

\* Opinion o is, to the stored precision, referral B discounted by the
\* probability p of trust A.
DiscountAgrees(A, B, o) ==
    /\ o.base_rate = B.base_rate
    /\ Within(Stored(o.belief), BMul(ProjectedExact(A), BFromInt(B.belief)))
    /\ Within(Stored(o.disbelief), BMul(ProjectedExact(A), BFromInt(B.disbelief)))
    /\ Within(BAdd(Stored(o.uncertainty),
                   BMul(ProjectedExact(A), BFromInt(B.belief + B.disbelief))),
              Stored(Million))

\* C5: trust discounting of valid opinions never fails; the result has the
\* referral's base rate and, to the stored precision, belief p * belief,
\* disbelief p * disbelief and uncertainty 1 - belief - disbelief, with p
\* the trust's probability.
C5_TrustDiscounting ==
    call = "trust_discounting" /\ Valid(self) /\ Valid(args[1]) =>
        result.ok /\ DiscountAgrees(self, args[1], result.val)

C5_Witness ==
    /\ call = "trust_discounting" /\ result.ok
    /\ DiscountAgrees(self, args[1], result.val)
    /\ result.val.belief > 0 /\ result.val.disbelief > 0

\* C6: probability() of a constructed Opinion returns belief + base_rate *
\* uncertainty, a value in [0,1]; it never fails with OutOfRangeError.
C6_Probability ==
    call = "probability" /\ Valid(self) =>
        /\ result.ok
        /\ DLe(D(0, 0), result.val) /\ DLe(result.val, D(1, 0))
        /\ DLe(DAbs(DSub(result.val, Dec(FALSE, ProjectedExact(self), -2 * Places))),
               D(1, -15))

C6_Witness ==
    /\ call = "probability" /\ result.ok
    /\ self.uncertainty > 0 /\ self.base_rate > 0
    /\ DLt(D(0, 0), result.val) /\ DLt(result.val, D(1, 0))

\* Both calls fail, or both return opinions equal in all four fields.
SameOutcome(r1, r2) == (~r1.ok /\ ~r2.ok) \/ (r1.ok /\ r2.ok /\ r1.val = r2.val)

\* C7: for valid opinions whose uncertainties are not both 0, each fusion
\* operator has the same outcome with its operands exchanged.
C7_FusionSymmetric ==
    /\ call = "cumulative_fusion" /\ ~(self.uncertainty = 0 /\ args[1].uncertainty = 0)
           => SameOutcome(result, cumulative_fusion(args[1], self))
    /\ call = "average_fusion" /\ ~(self.uncertainty = 0 /\ args[1].uncertainty = 0)
           => SameOutcome(result, average_fusion(args[1], self))

C7_Witness ==
    /\ call = "cumulative_fusion" /\ result.ok
    /\ self.belief # args[1].belief /\ self.base_rate # args[1].base_rate
    /\ self.uncertainty # args[1].uncertainty

MassKeys == {"belief", "disbelief", "uncertainty"}

\* C8: from_json of a mapping with belief, disbelief and uncertainty but no
\* base_rate succeeds with base_rate 0.5; it fails with MalformedInputError
\* exactly when the input is no mapping or lacks one of those three keys.
C8_FromJsonDefault ==
    call = "from_json" =>
        /\ ErrorKind(result) = "MalformedInputError"
               <=> (~args[1].isdict \/ ~(MassKeys \subseteq DOMAIN args[1].d))
        /\ args[1].isdict /\ DOMAIN args[1].d = MassKeys
               => result.ok /\ result.val.base_rate = Micro(DefaultBaseRate)

C8_Witness == call = "from_json" /\ args[1].isdict /\ DOMAIN args[1].d = MassKeys

\* C9: from_evidence with positive counts r and s and weight W > 0 returns
\* an Opinion holding the 6-decimal roundings of r/(r+s+W), s/(r+s+W) and
\* W/(r+s+W) and the given base rate; with r <= 0 or s <= 0 it fails with
\* InvalidArgumentError and produces no Opinion.
C9_FromEvidence ==
    call = "from_evidence" =>
        LET r == args[1]
            s == args[2]
            W == args[4]
            n == r + s + W
        IN  IF r > 0 /\ s > 0
            THEN /\ constructed
                 /\ result = Return([belief |-> (2 * r * Million + n) \div (2 * n),
                                     disbelief |-> (2 * s * Million + n) \div (2 * n),
                                     uncertainty |-> (2 * W * Million + n) \div (2 * n),
                                     base_rate |-> Micro(args[3])])
            ELSE ErrorKind(result) = "InvalidArgumentError" /\ ~constructed

C9_Witness ==
    /\ call = "from_evidence" /\ args[1] = 1 /\ args[2] = 2 /\ args[4] = 4
    /\ result = Return([belief |-> 142857, disbelief |-> 285714,
                        uncertainty |-> 571429, base_rate |-> 500000])

\* C10: to_json gives a mapping with exactly the four keys, and from_json of
\* it returns an Opinion equal to the original in all four fields.
C10_JsonRoundTrip ==
    /\ call = "to_json" => result.ok /\ DOMAIN result.val = Keys
    /\ call = "from_json" /\ args[1].isdict /\ DOMAIN args[1].d = Keys
           => result = Return(self)

C10_Witness ==
    /\ call = "from_json" /\ args[1].isdict /\ DOMAIN args[1].d = Keys
    /\ result.ok /\ result.val.belief = 285714 /\ result.val.disbelief = 428571

====
